---- MODULE Spec2Model ----
(***************************************************************************)
(* The analysis workflow of ecom-ai-agents: EcommerceAgents.analyze runs   *)
(* the graph data_extractor -> analyst -> (should_continue) ->             *)
(* data_extractor | consultant -> END over one AnalysisState.              *)
(*                                                                         *)
(* A text (a completion response) is a sequence of one-character strings,  *)
(* so that Python's substring tests, split, strip and lower are computed   *)
(* and not assumed.  A text that the program stores is kept as a string.   *)
(***************************************************************************)
EXTENDS Integers, Sequences, FiniteSets, TLC

VARIABLES
    pc,       \* pc[r]: where request r stands in analyze and the graph
    state,    \* state[r]: the AnalysisState of request r
    memory,   \* memory[t]: the checkpoint MemorySaver holds for thread t
    result,   \* result[r]: what analyze returned to request r
    last,     \* last[r]: the last stage of request r and what its clients did
    visits,   \* visits[r]: the runs of data_extractor in the current call
    judged    \* judged[r]: how the last analyst of the current call ended

vars == <<pc, state, memory, result, last, visits, judged>>

(***************************************************************************)
(* Bounds of the model.                                                    *)
(***************************************************************************)
\* a completion response to data_extractor has at most MaxWords words
MaxWords == 2
\* a data adapter query returns at most MaxRows rows
MaxRows == 1

Min(a, b) == IF a <= b THEN a ELSE b

(***************************************************************************)
(* Python str operations on texts.                                         *)
(***************************************************************************)
\* the string of the characters i..j of cs
RECURSIVE StrRange(_, _, _)
StrRange(cs, i, j) ==
    IF i > j THEN ""
    ELSE IF i = j THEN cs[i]
    ELSE LET m == (i + j) \div 2
         IN StrRange(cs, i, m) \o StrRange(cs, m + 1, j)

Str(cs) == StrRange(cs, 1, Len(cs))

\* str.lower() on the letters the responses use
UpperCase ==
    <<"A", "B", "C", "D", "E", "F", "G", "H", "I", "J", "K", "L", "M",
      "N", "O", "P", "Q", "R", "S", "T", "U", "V", "W", "X", "Y", "Z">>

LowerCase ==
    <<"a", "b", "c", "d", "e", "f", "g", "h", "i", "j", "k", "l", "m",
      "n", "o", "p", "q", "r", "s", "t", "u", "v", "w", "x", "y", "z">>

\* str.lower on a character
LowerChar(c) ==
    IF \E i \in DOMAIN UpperCase : UpperCase[i] = c
    THEN LowerCase[CHOOSE i \in DOMAIN UpperCase : UpperCase[i] = c]
    ELSE c

Lower(cs) == [i \in 1..Len(cs) |-> LowerChar(cs[i])]

\* whether cs[i..] starts with the string needle
MatchAt(cs, i, needle) ==
    /\ i + Len(needle) - 1 <= Len(cs)
    /\ StrRange(cs, i, i + Len(needle) - 1) = needle

\* str.find, 1-based; 0 when needle does not occur
Find(cs, needle) ==
    LET at == {i \in 1..Len(cs) : MatchAt(cs, i, needle)}
    IN IF at = {} THEN 0 ELSE CHOOSE i \in at : \A j \in at : i <= j

\* needle in cs
Contains(cs, needle) == Find(cs, needle) # 0

\* cs.split(sep)[0]
SplitFirst(cs, sep) ==
    IF Contains(cs, sep) THEN SubSeq(cs, 1, Find(cs, sep) - 1) ELSE cs

\* cs.split(sep)[1], for a cs that contains sep
SplitSecond(cs, sep) ==
    SplitFirst(SubSeq(cs, Find(cs, sep) + Len(sep), Len(cs)), sep)

Whitespace == {" ", "\n", "\t", "\r"}

RECURSIVE LStripChars(_, _)
LStripChars(cs, chars) ==
    IF cs # <<>> /\ Head(cs) \in chars THEN LStripChars(Tail(cs), chars) ELSE cs

RECURSIVE RStripChars(_, _)
RStripChars(cs, chars) ==
    IF cs # <<>> /\ cs[Len(cs)] \in chars
    THEN RStripChars(SubSeq(cs, 1, Len(cs) - 1), chars)
    ELSE cs

\* str.strip()
Strip(cs) == RStripChars(LStripChars(cs, Whitespace), Whitespace)

\* cs.split("\n")
RECURSIVE SplitLines(_)
SplitLines(cs) ==
    IF Contains(cs, "\n")
    THEN <<SplitFirst(cs, "\n")>> \o SplitLines(SubSeq(cs, Find(cs, "\n") + 1, Len(cs)))
    ELSE <<cs>>

\* cs.replace(old, "")
RECURSIVE Remove(_, _)
Remove(cs, old) ==
    IF Contains(cs, old)
    THEN SplitFirst(cs, old) \o Remove(SubSeq(cs, Find(cs, old) + Len(old), Len(cs)), old)
    ELSE cs

\* ", ".join / " ".join of texts
RECURSIVE Join(_, _)
Join(parts, sep) ==
    IF parts = <<>> THEN <<>>
    ELSE IF Len(parts) = 1 THEN parts[1]
    ELSE parts[1] \o sep \o Join(Tail(parts), sep)

\* the sequences of at most n elements of S
RECURSIVE SeqsUpTo(_, _)
SeqsUpTo(S, n) ==
    IF n = 0 THEN {<<>>}
    ELSE LET shorter == SeqsUpTo(S, n - 1)
         IN shorter \cup {Append(s, x) : s \in shorter, x \in S}

(***************************************************************************)
(* AnalysisState and the data it holds.  data is a Python dict: a sequence *)
(* of entries in insertion order, with unique keys.                        *)
(***************************************************************************)
AnalysisState(query, data, analysis, recommendations, charts, needs_more_data, data_requests, iteration_count) ==
    [query |-> query, data |-> data, analysis |-> analysis,
     recommendations |-> recommendations, charts |-> charts,
     needs_more_data |-> needs_more_data, data_requests |-> data_requests,
     iteration_count |-> iteration_count]

\* AnalysisState(): every field at its default
DefaultState == AnalysisState("", <<>>, "", "", <<>>, FALSE, <<>>, 0)

Keys(data) == {data[i].key : i \in DOMAIN data}

\* key in data
HasKey(data, key) == key \in Keys(data)

\* data[key]
Get(data, key) == data[CHOOSE i \in DOMAIN data : data[i].key = key].value

\* data[key] = value
Put(data, key, value) ==
    IF HasKey(data, key)
    THEN [i \in DOMAIN data |->
            IF data[i].key = key THEN [key |-> key, value |-> value] ELSE data[i]]
    ELSE Append(data, [key |-> key, value |-> value])

(***************************************************************************)
(* SnowflakeTools: seven queries.  What a query returns is its operation,  *)
(* the parameter it was run with and the number of rows the warehouse      *)
(* gave; a query can also raise.                                           *)
(***************************************************************************)
Operations ==
    {"get_sales_metrics", "get_top_products", "get_customer_segments",
     "get_sales_trend", "get_revenue_by_category", "get_monthly_comparison",
     "get_customer_lifetime_value"}

\* the key of the mapping an operation returns (get_sales_metrics returns
\* its metrics flat, under no key)
OutputKey(op) ==
    CASE op = "get_sales_metrics" -> ""
      [] op = "get_top_products" -> "top_products"
      [] op = "get_customer_segments" -> "customer_segments"
      [] op = "get_sales_trend" -> "sales_trend"
      [] op = "get_revenue_by_category" -> "revenue_by_category"
      [] op = "get_monthly_comparison" -> "monthly_comparison"
      [] op = "get_customer_lifetime_value" -> "top_customers"

Query(op, arg, rows) == [op |-> op, arg |-> arg, rows |-> rows]

\* payload.get(key) is truthy: the list under key exists and is non-empty
HasRows(payload, key) == OutputKey(payload.op) = key /\ payload.rows > 0

(***************************************************************************)
(* data_extractor: the keyword parse of the lower-cased decision.          *)
(***************************************************************************)
\* the capabilities in the order data_extractor tests them
FetchOrder ==
    <<"get_sales_metrics", "get_sales_trend", "get_top_products",
      "get_revenue_by_category", "get_monthly_comparison",
      "get_customer_segments", "get_customer_lifetime_value">>

\* the longest keyword data_extractor looks for ("top customer")
MaxKeyword == 12

\* The decision: the substrings of at most MaxKeyword characters of the
\* lower-cased response, so that needle \in decision is Python's
\* needle in decision for every keyword.
Decision(text) ==
    LET cs == Lower(text)
    IN UNION {{StrRange(cs, i, j) : j \in i..Min(Len(cs), i + MaxKeyword - 1)} :
                i \in 1..Len(cs)}

\* the condition on the decision under which a capability is selected
Selected(op, decision) ==
    CASE op = "get_sales_metrics" ->
            "sales" \in decision \/ "revenue" \in decision \/ "metrics" \in decision
      [] op = "get_sales_trend" ->
            \/ "trend" \in decision \/ "line" \in decision
            \/ "time series" \in decision \/ "daily" \in decision
      [] op = "get_top_products" -> "product" \in decision \/ "top" \in decision
      [] op = "get_revenue_by_category" ->
            \/ "category" \in decision \/ "categories" \in decision
            \/ "breakdown" \in decision
      [] op = "get_monthly_comparison" ->
            \/ "monthly" \in decision \/ "month" \in decision
            \/ "comparison" \in decision
      [] op = "get_customer_segments" ->
            "customer" \in decision /\ "segment" \in decision
      [] op = "get_customer_lifetime_value" ->
            \/ "lifetime" \in decision \/ "ltv" \in decision
            \/ "top customer" \in decision

\* the parameter a selected capability is queried with (0: it takes none)
Param(op, decision) ==
    CASE op = "get_sales_metrics" ->
            IF "90" \in decision \/ "ninety" \in decision THEN 90
            ELSE IF "60" \in decision \/ "sixty" \in decision THEN 60
            ELSE IF "7" \in decision \/ "seven" \in decision \/ "week" \in decision THEN 7
            ELSE 30
      [] op = "get_sales_trend" ->
            IF "90" \in decision THEN 90
            ELSE IF "60" \in decision THEN 60
            ELSE IF "7" \in decision THEN 7
            ELSE 30
      [] op = "get_top_products" ->
            IF "20" \in decision \/ "twenty" \in decision THEN 20
            ELSE IF "5" \in decision \/ "five" \in decision THEN 5
            ELSE 10
      [] op = "get_monthly_comparison" ->
            IF "12" \in decision THEN 12
            ELSE IF "3" \in decision THEN 3
            ELSE 6
      [] op = "get_customer_lifetime_value" ->
            IF "20" \in decision THEN 20
            ELSE IF "5" \in decision THEN 5
            ELSE 10
      [] OTHER -> 0

\* the key of data under which data_extractor stores a capability's result
StoreKey(op) ==
    CASE op = "get_sales_metrics" -> "sales_metrics"
      [] op = "get_sales_trend" -> "sales_trend"
      [] op = "get_top_products" -> "top_products"
      [] op = "get_revenue_by_category" -> "revenue_by_category"
      [] op = "get_monthly_comparison" -> "monthly_comparison"
      [] op = "get_customer_segments" -> "customer_segments"
      [] op = "get_customer_lifetime_value" -> "customer_lifetime_value"

\* a data_extractor that looks for the key of the mapping a query returns
SkipKey_output(op) ==
    IF op = "get_sales_metrics" THEN "sales_metrics" ELSE OutputKey(op)

\* the key of data that data_extractor looks for before it queries a
\* capability ("... not in existing_data")
SkipKey(op) ==
    CASE op = "get_sales_metrics" -> "sales_metrics"
      [] op = "get_sales_trend" -> "sales_trend"
      [] op = "get_top_products" -> "top_products"
      [] op = "get_revenue_by_category" -> "revenue_by_category"
      [] op = "get_monthly_comparison" -> "monthly_comparison"
      [] op = "get_customer_segments" -> "customer_segments"
      [] op = "get_customer_lifetime_value" -> "customer_lifetime_value"

\* a data_extractor without the "not in existing_data" tests
Held_never(existing_data, op) == FALSE

\* the test that skips a capability: its key is already in existing_data
Held(existing_data, op) == HasKey(existing_data, SkipKey(op))

Call(op, arg) == [key |-> StoreKey(op), op |-> op, arg |-> arg]

\* the capabilities a decision selects, in order, each with its parameter
Selection(decision) ==
    LET ops == SelectSeq(FetchOrder, LAMBDA op : Selected(op, decision))
    IN [i \in 1..Len(ops) |-> Call(ops[i], Param(ops[i], decision))]

\* "Default data if nothing fetched"
DefaultCalls ==
    <<Call("get_sales_metrics", 30), Call("get_top_products", 10),
      Call("get_sales_trend", 30)>>

\* a default dataset fetched on every first run, whatever was matched
UsesDefault_first(existing_data, iteration_count) == iteration_count = 0

\* a data_extractor without the default dataset
UsesDefault_never(existing_data, iteration_count) == FALSE

\* whether the default dataset is fetched, existing_data being data after
\* the keyword branches
UsesDefault(existing_data, iteration_count) ==
    existing_data = <<>> /\ iteration_count = 0

\* an except branch that fetches the metrics alone
FallbackCalls_metrics == <<Call("get_sales_metrics", 30)>>

\* the except branch's dataset
FallbackCalls == <<Call("get_sales_metrics", 30), Call("get_sales_trend", 30)>>

\* existing_data after the results of calls are stored, the adapter giving
\* rows[op] rows to a query of op
RECURSIVE Store(_, _, _)
Store(existing_data, calls, rows) ==
    IF calls = <<>> THEN existing_data
    ELSE LET c == Head(calls)
         IN Store(Put(existing_data, c.key, Query(c.op, c.arg, rows[c.op])),
                  Tail(calls), rows)

(***************************************************************************)
(* json.loads on the JSON the responses use.  A JSON value is a record:    *)
(* t its type, s its text (a string, a number, a literal, a member's key)  *)
(* and items its elements (an array), its members (an object) or its       *)
(* value (a member).                                                       *)
(***************************************************************************)
JValue(t, s, items) == [t |-> t, s |-> s, items |-> items]
JStr(s) == JValue("str", s, <<>>)
JArr(items) == JValue("arr", "", items)
JObj(members) == JValue("obj", "", members)
JMember(key, value) == JValue("member", key, <<value>>)

Parsed(v, next) == [ok |-> TRUE, v |-> v, next |-> next]
ParseError == [ok |-> FALSE, v |-> JStr(""), next |-> 0]

Digits == {"0", "1", "2", "3", "4", "5", "6", "7", "8", "9"}

RECURSIVE SkipWs(_, _)
SkipWs(cs, i) ==
    IF i <= Len(cs) /\ cs[i] \in Whitespace THEN SkipWs(cs, i + 1) ELSE i

\* the position of the quote that closes the string whose text starts at
\* i, 0 when there is none or a control character comes first
RECURSIVE StringEnd(_, _)
StringEnd(cs, i) ==
    IF i > Len(cs) THEN 0
    ELSE IF cs[i] = "\"" THEN i
    ELSE IF cs[i] \in {"\n", "\t", "\r"} THEN 0
    ELSE IF cs[i] = "\\" THEN StringEnd(cs, i + 2)
    ELSE StringEnd(cs, i + 1)

RECURSIVE NumberEnd(_, _)
NumberEnd(cs, i) ==
    IF i <= Len(cs) /\ cs[i] \in Digits THEN NumberEnd(cs, i + 1) ELSE i

RECURSIVE ParseValue(_, _)
RECURSIVE ParseElements(_, _, _)
RECURSIVE ParseMembers(_, _, _)

\* the value that starts at position i
ParseValue(cs, i) ==
    IF i > Len(cs) THEN ParseError
    ELSE IF cs[i] = "\"" THEN
        LET e == StringEnd(cs, i + 1)
        IN IF e = 0 THEN ParseError
           ELSE Parsed(JStr(Str(SubSeq(cs, i + 1, e - 1))), e + 1)
    ELSE IF cs[i] = "[" THEN
        LET j == SkipWs(cs, i + 1)
        IN IF j <= Len(cs) /\ cs[j] = "]" THEN Parsed(JArr(<<>>), j + 1)
           ELSE ParseElements(cs, j, <<>>)
    ELSE IF cs[i] = "{" THEN
        LET j == SkipWs(cs, i + 1)
        IN IF j <= Len(cs) /\ cs[j] = "}" THEN Parsed(JObj(<<>>), j + 1)
           ELSE ParseMembers(cs, j, <<>>)
    ELSE IF cs[i] \in Digits THEN
        LET e == NumberEnd(cs, i)
        IN Parsed(JValue("num", Str(SubSeq(cs, i, e - 1)), <<>>), e)
    ELSE IF MatchAt(cs, i, "true") THEN Parsed(JValue("lit", "true", <<>>), i + 4)
    ELSE IF MatchAt(cs, i, "false") THEN Parsed(JValue("lit", "false", <<>>), i + 5)
    ELSE IF MatchAt(cs, i, "null") THEN Parsed(JValue("lit", "null", <<>>), i + 4)
    ELSE ParseError

\* the elements of an array from position i on, done being those before
ParseElements(cs, i, done) ==
    LET v == ParseValue(cs, i)
        j == SkipWs(cs, v.next)
    IN IF ~v.ok \/ j > Len(cs) THEN ParseError
       ELSE IF cs[j] = "]" THEN Parsed(JArr(Append(done, v.v)), j + 1)
       ELSE IF cs[j] = "," THEN ParseElements(cs, SkipWs(cs, j + 1), Append(done, v.v))
       ELSE ParseError

\* the members of an object from position i on, done being those before
ParseMembers(cs, i, done) ==
    IF i > Len(cs) \/ cs[i] # "\"" THEN ParseError
    ELSE LET k == ParseValue(cs, i)
             c == SkipWs(cs, k.next)
         IN IF ~k.ok \/ c > Len(cs) \/ cs[c] # ":" THEN ParseError
            ELSE LET v == ParseValue(cs, SkipWs(cs, c + 1))
                     j == SkipWs(cs, v.next)
                     m == Append(done, JMember(k.v.s, v.v))
                 IN IF ~v.ok \/ j > Len(cs) THEN ParseError
                    ELSE IF cs[j] = "}" THEN Parsed(JObj(m), j + 1)
                    ELSE IF cs[j] = "," THEN ParseMembers(cs, SkipWs(cs, j + 1), m)
                    ELSE ParseError

\* json.loads(cs): the value, or an exception (ok false) when cs is not
\* one JSON value with nothing but whitespace around it
json_loads(cs) ==
    LET v == ParseValue(cs, SkipWs(cs, 1))
    IN IF v.ok /\ SkipWs(cs, v.next) > Len(cs) THEN v ELSE ParseError

\* chart[key] of a chart descriptor ("" when it has no such string)
Field(chart, key) ==
    IF chart.t = "obj" /\ \E i \in DOMAIN chart.items :
                              chart.items[i].s = key /\ chart.items[i].items[1].t = "str"
    THEN chart.items[CHOOSE i \in DOMAIN chart.items :
                         chart.items[i].s = key /\ chart.items[i].items[1].t = "str"].items[1].s
    ELSE ""

(***************************************************************************)
(* Chart inference.                                                        *)
(***************************************************************************)
\* the fixed descriptor of a key's default chart
DefaultChart(key) ==
    CASE key = "sales_trend" ->
            JObj(<<JMember("type", JStr("line")),
                   JMember("title", JStr("Sales Trend Over Time")),
                   JMember("data_key", JStr("sales_trend")),
                   JMember("x_field", JStr("date")),
                   JMember("y_fields", JArr(<<JStr("revenue")>>)),
                   JMember("description", JStr("Daily revenue trend"))>>)
      [] key = "top_products" ->
            JObj(<<JMember("type", JStr("horizontal_bar")),
                   JMember("title", JStr("Top Products by Revenue")),
                   JMember("data_key", JStr("top_products")),
                   JMember("x_field", JStr("product_name")),
                   JMember("y_fields", JArr(<<JStr("total_revenue")>>)),
                   JMember("description", JStr("Product performance comparison"))>>)
      [] key = "revenue_by_category" ->
            JObj(<<JMember("type", JStr("pie")),
                   JMember("title", JStr("Revenue Distribution by Category")),
                   JMember("data_key", JStr("revenue_by_category")),
                   JMember("name_field", JStr("category")),
                   JMember("value_field", JStr("revenue")),
                   JMember("description", JStr("Category revenue breakdown"))>>)
      [] key = "monthly_comparison" ->
            JObj(<<JMember("type", JStr("bar")),
                   JMember("title", JStr("Monthly Revenue Comparison")),
                   JMember("data_key", JStr("monthly_comparison")),
                   JMember("x_field", JStr("month")),
                   JMember("y_fields", JArr(<<JStr("revenue")>>)),
                   JMember("description", JStr("Month-over-month revenue performance"))>>)
      [] key = "customer_segments" ->
            JObj(<<JMember("type", JStr("horizontal_bar")),
                   JMember("title", JStr("Customer Segments Distribution")),
                   JMember("data_key", JStr("customer_segments")),
                   JMember("x_field", JStr("segment")),
                   JMember("y_fields", JArr(<<JStr("customer_count")>>)),
                   JMember("description", JStr("Customer distribution across segments"))>>)

\* the keys _generate_default_charts checks, in its order
DefaultChartKeys ==
    <<"sales_trend", "top_products", "revenue_by_category",
      "monthly_comparison", "customer_segments">>

\* a guard that does not look at the inner list
Chartable_present(data, key) == HasKey(data, key)

\* the guard of one default chart
Chartable(data, key) == HasKey(data, key) /\ HasRows(Get(data, key), key)

_generate_default_charts(data) ==
    LET present == SelectSeq(DefaultChartKeys, LAMBDA key : Chartable(data, key))
    IN [i \in 1..Len(present) |-> DefaultChart(present[i])]

\* lines 289-299: the position of the "]" at which bracket_count returns
\* to 0, scanning from position i with bracket_count depth; 0 when the
\* text ends first
RECURSIVE BracketEnd(_, _, _)
BracketEnd(cs, i, depth) ==
    IF i > Len(cs) THEN 0
    ELSE IF cs[i] = "[" THEN BracketEnd(cs, i + 1, depth + 1)
    ELSE IF cs[i] = "]" THEN
        IF depth - 1 = 0 THEN i ELSE BracketEnd(cs, i + 1, depth - 1)
    ELSE BracketEnd(cs, i + 1, depth)

\* lines 284-301: charts_json
ChartsJson(content) ==
    LET charts_section == Strip(SplitSecond(content, "CHARTS:"))
        start_idx == Find(charts_section, "[")
        end_idx == BracketEnd(charts_section, start_idx, 0)
    IN IF end_idx = 0 THEN <<>> ELSE SubSeq(charts_section, start_idx, end_idx)

\* lines 282-304: the charts parsed from the response; ok false when the
\* function goes on to the default charts
ParseCharts(content) ==
    IF /\ Contains(content, "CHARTS:")
       /\ Contains(Strip(SplitSecond(content, "CHARTS:")), "[")
       /\ json_loads(ChartsJson(content)).ok
    THEN [ok |-> TRUE, charts |-> json_loads(ChartsJson(content)).v.items]
    ELSE [ok |-> FALSE, charts |-> <<>>]

(***************************************************************************)
(* analyst: what it reads in the response.                                 *)
(***************************************************************************)
\* the characters lstrip removes that a response can hold
BulletChars == {"-", " "}

Placeholder == "Gathering additional data based on analysis needs..."

\* lines 238-245: data_requests of a response that holds "NEEDED:"
NeededRequests(content) ==
    LET after == SplitSecond(content, "NEEDED:")
        needed_section == IF Contains(after, "ANALYSIS:")
                          THEN SplitFirst(after, "ANALYSIS:")
                          ELSE after
        lines == SelectSeq(SplitLines(needed_section),
                     LAMBDA line : Strip(line) # <<>> /\ ~MatchAt(line, 1, "SUFFICIENT"))
    IN [i \in 1..Len(lines) |->
            Str(Strip(LStripChars(Strip(lines[i]), BulletChars)))]

\* lines 255-262: analysis of a response judged sufficient
ExtractAnalysis(content) ==
    IF Contains(content, "ANALYSIS:")
    THEN LET analysis_part == SplitSecond(content, "ANALYSIS:")
         IN IF Contains(analysis_part, "CHARTS:")
            THEN Str(Strip(SplitFirst(analysis_part, "CHARTS:")))
            ELSE Str(Strip(analysis_part))
    ELSE Str(Strip(Remove(content, "SUFFICIENT: YES")))

\* the test of line 235
Insufficient(content) == Contains(content, "SUFFICIENT: NO")

\* what analyst reads in a response
Read(content) ==
    [insufficient |-> Insufficient(content),
     needed |-> Contains(content, "NEEDED:"),
     data_requests |-> IF Contains(content, "NEEDED:")
                       THEN NeededRequests(content) ELSE <<>>,
     analysis |-> ExtractAnalysis(content),
     charts |-> ParseCharts(content)]

(***************************************************************************)
(* The texts the completion client answers with.                           *)
(***************************************************************************)
\* Sales
w_sales ==
    <<"S", "a", "l", "e", "s">>

\* trend
w_trend ==
    <<"t", "r", "e", "n", "d">>

\* Top
w_top ==
    <<"T", "o", "p">>

\* week
w_week ==
    <<"w", "e", "e", "k">>

\* category
w_category ==
    <<"c", "a", "t", "e", "g", "o", "r", "y">>

\* monthly
w_monthly ==
    <<"m", "o", "n", "t", "h", "l", "y">>

\* customer
w_customer ==
    <<"c", "u", "s", "t", "o", "m", "e", "r">>

\* segment
w_segment ==
    <<"s", "e", "g", "m", "e", "n", "t">>

\* LTV
w_ltv ==
    <<"L", "T", "V">>

\* 20
w_twenty ==
    <<"2", "0">>

\* 30
w_thirty ==
    <<"3", "0">>

\* 90
w_ninety ==
    <<"9", "0">>

\* ok
w_ok ==
    <<"o", "k">>

\* SUFFICIENT: NO
l_no ==
    <<"S", "U", "F", "F", "I", "C", "I", "E", "N", "T", ":", " ", "N", "O">>

\* SUFFICIENT: YES
l_yes ==
    <<"S", "U", "F", "F", "I", "C", "I", "E", "N", "T", ":", " ", "Y", "E",
      "S">>

\* NEEDED:
l_needed ==
    <<"N", "E", "E", "D", "E", "D", ":">>

\* - trend data
l_request1 ==
    <<"-", " ", "t", "r", "e", "n", "d", " ", "d", "a", "t", "a">>

\*   top products 
l_request2 ==
    <<" ", " ", "t", "o", "p", " ", "p", "r", "o", "d", "u", "c", "t", "s",
      " ">>

\* ANALYSIS: Sales grew. 
l_analysis ==
    <<"A", "N", "A", "L", "Y", "S", "I", "S", ":", " ", "S", "a", "l", "e",
      "s", " ", "g", "r", "e", "w", ".", " ">>

\* sufficient: no
l_lower ==
    <<"s", "u", "f", "f", "i", "c", "i", "e", "n", "t", ":", " ", "n", "o">>

\* All good.
l_plain ==
    <<"A", "l", "l", " ", "g", "o", "o", "d", ".">>

\* CHARTS: [{"type": "line", "data_key": "sales_trend", "y_fields": ["revenue"]}]
l_charts_line ==
    <<"C", "H", "A", "R", "T", "S", ":", " ", "[", "{", "\"", "t", "y",
      "p", "e", "\"", ":", " ", "\"", "l", "i", "n", "e", "\"", ",", " ",
      "\"", "d", "a", "t", "a", "_", "k", "e", "y", "\"", ":", " ", "\"",
      "s", "a", "l", "e", "s", "_", "t", "r", "e", "n", "d", "\"", ",",
      " ", "\"", "y", "_", "f", "i", "e", "l", "d", "s", "\"", ":", " ",
      "[", "\"", "r", "e", "v", "e", "n", "u", "e", "\"", "]", "}", "]">>

\* CHARTS: [{"type": "pie", "data_key": "profit"}]
l_charts_profit ==
    <<"C", "H", "A", "R", "T", "S", ":", " ", "[", "{", "\"", "t", "y",
      "p", "e", "\"", ":", " ", "\"", "p", "i", "e", "\"", ",", " ", "\"",
      "d", "a", "t", "a", "_", "k", "e", "y", "\"", ":", " ", "\"", "p",
      "r", "o", "f", "i", "t", "\"", "}", "]">>

\* CHARTS: [{"title": "a]b", "data_key": "top_products"}]
l_charts_quoted ==
    <<"C", "H", "A", "R", "T", "S", ":", " ", "[", "{", "\"", "t", "i",
      "t", "l", "e", "\"", ":", " ", "\"", "a", "]", "b", "\"", ",", " ",
      "\"", "d", "a", "t", "a", "_", "k", "e", "y", "\"", ":", " ", "\"",
      "t", "o", "p", "_", "p", "r", "o", "d", "u", "c", "t", "s", "\"",
      "}", "]">>

\* CHARTS: [{"type": "bar"}
l_charts_open ==
    <<"C", "H", "A", "R", "T", "S", ":", " ", "[", "{", "\"", "t", "y",
      "p", "e", "\"", ":", " ", "\"", "b", "a", "r", "\"", "}">>

\* CHARTS: none
l_charts_none ==
    <<"C", "H", "A", "R", "T", "S", ":", " ", "n", "o", "n", "e">>

\* CHARTS: [{type: bar}]
l_charts_invalid ==
    <<"C", "H", "A", "R", "T", "S", ":", " ", "[", "{", "t", "y", "p", "e",
      ":", " ", "b", "a", "r", "}", "]">>

\* CHARTS: [{"data_key": "top_products", "y_fields": [["a"], {"b": []}]}]
l_charts_nested ==
    <<"C", "H", "A", "R", "T", "S", ":", " ", "[", "{", "\"", "d", "a",
      "t", "a", "_", "k", "e", "y", "\"", ":", " ", "\"", "t", "o", "p",
      "_", "p", "r", "o", "d", "u", "c", "t", "s", "\"", ",", " ", "\"",
      "y", "_", "f", "i", "e", "l", "d", "s", "\"", ":", " ", "[", "[",
      "\"", "a", "\"", "]", ",", " ", "{", "\"", "b", "\"", ":", " ", "[",
      "]", "}", "]", "}", "]">>

\* CHARTS: [{"title": "a]b", "data_key": "top_products", "y_fields": ["x"]}]
l_charts_bracket ==
    <<"C", "H", "A", "R", "T", "S", ":", " ", "[", "{", "\"", "t", "i",
      "t", "l", "e", "\"", ":", " ", "\"", "a", "]", "b", "\"", ",", " ",
      "\"", "d", "a", "t", "a", "_", "k", "e", "y", "\"", ":", " ", "\"",
      "t", "o", "p", "_", "p", "r", "o", "d", "u", "c", "t", "s", "\"",
      ",", " ", "\"", "y", "_", "f", "i", "e", "l", "d", "s", "\"", ":",
      " ", "[", "\"", "x", "\"", "]", "}", "]">>

\* 1. Promote: raise revenue
t_recommend ==
    <<"1", ".", " ", "P", "r", "o", "m", "o", "t", "e", ":", " ", "r", "a",
      "i", "s", "e", " ", "r", "e", "v", "e", "n", "u", "e">>

\* the responses of at most MaxWords words of a vocabulary
Sentences(words) == {Join(ws, <<" ">>) : ws \in SeqsUpTo(words, MaxWords)}

\* llm.invoke: a response with its text, or an exception
Response(text) == [ok |-> TRUE, text |-> text]
Failure == [ok |-> FALSE, text |-> <<>>]

\* the words of the decisions of a first Fetch
Vocabulary ==
    {w_sales, w_trend, w_top, w_category, w_monthly, w_customer, w_segment,
     w_ltv, w_twenty, w_week, w_ok}

\* what llm.invoke can do in the first data_extractor of a run
FirstTexts == Sentences(Vocabulary)
FirstDecisions == {Response(t) : t \in FirstTexts}

\* what llm.invoke can do in data_extractor during the loop
LoopTexts ==
    {<<>>, w_sales, Join(<<w_sales, w_week>>, <<" ">>), w_trend, w_top}
LoopDecisions == {Failure} \cup {Response(t) : t \in LoopTexts}

Lines(ls) == Join(ls, <<"\n">>)

\* what llm.invoke can do in analyst
AnalystTexts ==
    {Lines(<<l_no, l_needed, l_request1, l_request2>>),
     Lines(<<l_no>>),
     Lines(<<l_no, l_needed, l_analysis>>),
     Lines(<<l_lower, l_needed, l_request1>>),
     Lines(<<l_yes, l_analysis, l_charts_line>>),
     Lines(<<l_yes, l_analysis, l_charts_profit>>),
     Lines(<<l_yes, l_analysis, l_charts_quoted>>),
     Lines(<<l_yes, l_charts_open>>),
     Lines(<<l_yes, l_analysis>>),
     Lines(<<l_plain>>)}
AnalystResponses == {Failure} \cup {Response(t) : t \in AnalystTexts}

\* the responses of analyst that judge the data sufficient, one for each
\* way a CHARTS: section can be written
ChartTexts ==
    {Lines(<<l_yes, l_analysis>>)} \cup
    {Lines(<<l_yes, l_analysis, section>>) :
        section \in {l_charts_line, l_charts_profit, l_charts_quoted, l_charts_open,
                     l_charts_none, l_charts_invalid, l_charts_nested,
                     l_charts_bracket}}
ChartResponses == {Failure} \cup {Response(t) : t \in ChartTexts}

\* the decisions that name sales and some of the five charted datasets
ChartWords ==
    <<w_trend, w_top, w_category, w_monthly, Join(<<w_customer, w_segment>>, <<" ">>)>>
ChartSentence(named) ==
    Join(<<w_sales>> \o SelectSeq(ChartWords, LAMBDA w : w \in named), <<" ">>)
ChartDecisionTexts ==
    {ChartSentence(named) : named \in SUBSET {ChartWords[i] : i \in DOMAIN ChartWords}}
ChartDecisions == {Response(t) : t \in ChartDecisionTexts}

\* decisions that name capabilities together with numbers and periods
ParamWordings ==
    {<<w_sales, w_trend, w_week>>, <<w_sales, w_trend, w_ninety>>,
     <<w_sales, w_trend>>, <<w_sales, w_thirty, w_monthly>>, <<w_monthly>>,
     <<w_top>>, <<w_top, w_twenty>>, <<w_week, w_top>>, <<w_ltv>>,
     <<w_ltv, w_twenty>>}
ParamTexts == {Join(ws, <<" ">>) : ws \in ParamWordings}
ParamDecisions == {Response(t) : t \in ParamTexts}

\* what llm.invoke can do in consultant
ConsultantResponses == {Failure, Response(t_recommend)}

\* the queries of the callers
Queries == {"Top products?", "What are the sales trends for the last 30 days?"}

(***************************************************************************)
(* The parse of each response, computed once.                              *)
(***************************************************************************)
DecisionTexts == LoopTexts \cup FirstTexts \cup ChartDecisionTexts \cup ParamTexts

Selections == [text \in DecisionTexts |-> Selection(Decision(text))]

Readings == [content \in AnalystTexts \cup ChartTexts |-> Read(content)]

(***************************************************************************)
(* data_extractor.                                                         *)
(***************************************************************************)
\* the queries of the keyword branches for a response, in order, when none
\* raises: the selected capabilities that existing_data does not hold
KeywordCalls(text, existing_data) ==
    SelectSeq(Selections[text], LAMBDA c : ~Held(existing_data, c.op))

\* The data adapter during one run of data_extractor: rows[op] is the
\* number of rows a query of op returns, tryFail the number of the query of
\* the try block that raises (0: none does) and handlerFail the number of
\* the query of the except branch that raises (0: none does).
Adapter(rows, tryFail, handlerFail) ==
    [rows |-> rows, tryFail |-> tryFail, handlerFail |-> handlerFail]

\* the queries of the try block, in order, when none raises
TryCalls(s, llm) ==
    LET kw == KeywordCalls(llm.text, s.data)
    IN IF ~llm.ok THEN <<>>
       ELSE IF UsesDefault(Store(s.data, kw, [op \in Operations |-> 0]),
                           s.iteration_count)
            THEN kw \o DefaultCalls
            ELSE kw

\* a data_extractor whose except branch lets a failure of llm.invoke pass
Extract_unhandled(s, llm, tools) ==
    LET existing_data == s.data
        kw == KeywordCalls(llm.text, existing_data)
        fetched == Store(existing_data, kw, tools.rows)
        dflt == IF UsesDefault(fetched, s.iteration_count) THEN DefaultCalls ELSE <<>>
        tried ==
            IF ~llm.ok THEN [data |-> existing_data, raised |-> TRUE]
            ELSE IF tools.tryFail = 0 \/ tools.tryFail > Len(kw) + Len(dflt)
            THEN [data |-> IF dflt = <<>> THEN fetched
                           ELSE Store(<<>>, dflt, tools.rows),
                  raised |-> FALSE]
            ELSE [data |-> Store(existing_data,
                                 SubSeq(kw, 1, Min(tools.tryFail - 1, Len(kw))),
                                 tools.rows),
                  raised |-> TRUE]
    IN IF ~llm.ok THEN [data |-> existing_data, raised |-> TRUE]
       ELSE IF ~tried.raised \/ tried.data # <<>>
       THEN [data |-> tried.data, raised |-> FALSE]
       ELSE IF tools.handlerFail = 0
       THEN [data |-> Store(<<>>, FallbackCalls, tools.rows), raised |-> FALSE]
       ELSE [data |-> <<>>, raised |-> TRUE]

\* lines 71-155: existing_data when data_extractor reaches its return, or
\* raised when the exception of the except branch leaves the function
Extract(s, llm, tools) ==
    LET existing_data == s.data
        kw == KeywordCalls(llm.text, existing_data)
        fetched == Store(existing_data, kw, tools.rows)
        dflt == IF UsesDefault(fetched, s.iteration_count) THEN DefaultCalls ELSE <<>>
        tried ==
            IF ~llm.ok THEN [data |-> existing_data, raised |-> TRUE]
            ELSE IF tools.tryFail = 0 \/ tools.tryFail > Len(kw) + Len(dflt)
            THEN [data |-> IF dflt = <<>> THEN fetched
                           ELSE Store(<<>>, dflt, tools.rows),
                  raised |-> FALSE]
            ELSE [data |-> Store(existing_data,
                                 SubSeq(kw, 1, Min(tools.tryFail - 1, Len(kw))),
                                 tools.rows),
                  raised |-> TRUE]
    IN IF ~tried.raised \/ tried.data # <<>>
       THEN [data |-> tried.data, raised |-> FALSE]
       ELSE IF tools.handlerFail = 0
       THEN [data |-> Store(<<>>, FallbackCalls, tools.rows), raised |-> FALSE]
       ELSE [data |-> <<>>, raised |-> TRUE]

\* a return without the increment of iteration_count
ExtractorUpdate_uncounted(s, existing_data) ==
    [s EXCEPT !.data = existing_data, !.data_requests = <<>>]

\* a return that leaves data_requests as it was
ExtractorUpdate_pending(s, existing_data) ==
    [s EXCEPT !.data = existing_data,
              !.iteration_count = s.iteration_count + 1]

\* lines 48-51: the context the prompt of data_extractor opens with
Context(s) ==
    IF s.data_requests # <<>> THEN "Additional data requested" ELSE "Initial query"

\* lines 157-162: the updates data_extractor returns, applied to the state
ExtractorUpdate(s, existing_data) ==
    [s EXCEPT !.data = existing_data,
              !.data_requests = <<>>,
              !.iteration_count = s.iteration_count + 1]

(***************************************************************************)
(* analyst, consultant, should_continue.                                   *)
(***************************************************************************)
\* an _extract_charts that returns no charts when the parse fails
_extract_charts_none(content, data) ==
    IF Readings[content].charts.ok
    THEN Readings[content].charts.charts
    ELSE <<>>

_extract_charts(content, data) ==
    IF Readings[content].charts.ok
    THEN Readings[content].charts.charts
    ELSE _generate_default_charts(data)

\* str(list(data.keys()))
RECURSIVE KeyList(_)
KeyList(data) ==
    IF data = <<>> THEN ""
    ELSE "'" \o data[1].key \o "'" \o (IF Len(data) > 1 THEN ", " ELSE "")
         \o KeyList(Tail(data))

\* an except branch that asks for the data again
AnalystFallback_retry(s) ==
    [s EXCEPT !.needs_more_data = TRUE,
              !.data_requests = <<"more">>,
              !.analysis = "Analysis based on available data: [" \o KeyList(s.data) \o "]",
              !.charts = _generate_default_charts(s.data)]

\* an except branch that drops the data
AnalystFallback_emptied(s) ==
    [s EXCEPT !.needs_more_data = FALSE,
              !.data = <<>>,
              !.analysis = "Analysis based on available data: []",
              !.charts = <<>>]

\* lines 272-276: the updates of the except branch
AnalystFallback(s) ==
    [s EXCEPT !.needs_more_data = FALSE,
              !.analysis = "Analysis based on available data: [" \o KeyList(s.data) \o "]",
              !.charts = _generate_default_charts(s.data)]

\* an analyst whose insufficient branch draws the default charts
AnalystUpdate_charted(s, content) ==
    IF Readings[content].insufficient
    THEN [s EXCEPT !.needs_more_data = TRUE,
                   !.data_requests = IF Readings[content].needed
                                     THEN Readings[content].data_requests
                                     ELSE s.data_requests,
                   !.analysis = Placeholder,
                   !.charts = _generate_default_charts(s.data)]
    ELSE [s EXCEPT !.needs_more_data = FALSE,
                   !.data_requests = <<>>,
                   !.analysis = Readings[content].analysis,
                   !.charts = _extract_charts(content, s.data)]

\* an analyst whose else branch leaves needs_more_data as it was
AnalystUpdate_sticky(s, content) ==
    IF Readings[content].insufficient
    THEN [s EXCEPT !.needs_more_data = TRUE,
                   !.data_requests = IF Readings[content].needed
                                     THEN Readings[content].data_requests
                                     ELSE s.data_requests,
                   !.analysis = Placeholder,
                   !.charts = <<>>]
    ELSE [s EXCEPT !.data_requests = <<>>,
                   !.analysis = Readings[content].analysis,
                   !.charts = _extract_charts(content, s.data)]

\* lines 233-268: the updates of a response
AnalystUpdate(s, content) ==
    IF Readings[content].insufficient
    THEN [s EXCEPT !.needs_more_data = TRUE,
                   !.data_requests = IF Readings[content].needed
                                     THEN Readings[content].data_requests
                                     ELSE s.data_requests,
                   !.analysis = Placeholder,
                   !.charts = <<>>]
    ELSE [s EXCEPT !.needs_more_data = FALSE,
                   !.data_requests = <<>>,
                   !.analysis = Readings[content].analysis,
                   !.charts = _extract_charts(content, s.data)]

AnalystResult(s, llm) == IF llm.ok THEN AnalystUpdate(s, llm.text) ELSE AnalystFallback(s)

NoRecommendations == "Unable to generate recommendations. Please review the analysis."

ConsultantResult(s, llm) ==
    [s EXCEPT !.recommendations = IF llm.ok THEN Str(llm.text) ELSE NoRecommendations]

\* the cap of should_continue
MaxIterations == 3

\* a should_continue that tests the cap one iteration later
should_continue_late(s) ==
    IF s.iteration_count > MaxIterations + 1 THEN "consultant"
    ELSE IF s.needs_more_data /\ Len(s.data_requests) > 0 THEN "data_extractor"
    ELSE "consultant"

\* a should_continue that tests the cap with >=
should_continue_early(s) ==
    IF s.iteration_count >= MaxIterations THEN "consultant"
    ELSE IF s.needs_more_data /\ Len(s.data_requests) > 0 THEN "data_extractor"
    ELSE "consultant"

\* a should_continue whose forced exit leaves the graph
should_continue_end(s) ==
    IF s.iteration_count > MaxIterations THEN "END"
    ELSE IF s.needs_more_data /\ Len(s.data_requests) > 0 THEN "data_extractor"
    ELSE "consultant"

\* a should_continue that does not look at data_requests
should_continue_eager(s) ==
    IF s.iteration_count > MaxIterations THEN "consultant"
    ELSE IF s.needs_more_data THEN "data_extractor"
    ELSE "consultant"

should_continue(s) ==
    IF s.iteration_count > MaxIterations THEN "consultant"
    ELSE IF s.needs_more_data /\ Len(s.data_requests) > 0 THEN "data_extractor"
    ELSE "consultant"

(***************************************************************************)
(* The adapter's behaviours that differ for a run of data_extractor.       *)
(***************************************************************************)
OpsOf(calls) == {calls[i].op : i \in DOMAIN calls}

\* get_sales_metrics reads the one row of an aggregate (fetchone); the
\* other operations return the rows there are
RowsOf(ops) ==
    {[op \in Operations |->
        IF op = "get_sales_metrics" THEN 1 ELSE IF op \in ops THEN f[op] ELSE 0] :
     f \in [ops \ {"get_sales_metrics"} -> 0..MaxRows]}

\* the queries the except branch makes if it is entered
HandlerCalls(s) == IF s.data = <<>> THEN FallbackCalls ELSE <<>>

\* where the queries of a run can raise: <<tryFail, handlerFail>>
FailurePoints(s, llm) ==
    (0..Len(TryCalls(s, llm))) \X
    (0..(IF ~llm.ok \/ TryCalls(s, llm) # <<>> THEN Len(HandlerCalls(s)) ELSE 0))

AdapterRuns(s, llm) ==
    {Adapter(rows, f[1], f[2]) :
        rows \in RowsOf(OpsOf(TryCalls(s, llm)) \cup OpsOf(HandlerCalls(s))),
        f \in FailurePoints(s, llm)}

\* those in which every query that answers returns one row
OneRowRuns(s, llm) ==
    {Adapter([op \in Operations |-> 1], f[1], f[2]) : f \in FailurePoints(s, llm)}

\* those in which every query answers
AnsweringRuns(s, llm) ==
    {tools \in AdapterRuns(s, llm) : tools.tryFail = 0 /\ tools.handlerFail = 0}

(***************************************************************************)
(* The service: requests, each a call of EcommerceAgents.analyze on the    *)
(* one agents object, whose MemorySaver keeps the last checkpoint of each  *)
(* thread.                                                                 *)
(***************************************************************************)
Requests == {1, 2}

\* analyze_data calls agents.analyze(request.query): thread_id is the default
ThreadId(r) == "default"

Threads == {ThreadId(r) : r \in Requests}

Checkpoint(values, writer) == [values |-> values, writer |-> writer]

\* the checkpointer saves the state a step leaves
Save(r, s) == [memory EXCEPT ![ThreadId(r)] = Checkpoint(s, r)]

\* an input that leaves data out
InputFields_partial ==
    {"query", "analysis", "recommendations", "charts",
     "needs_more_data", "data_requests", "iteration_count"}

\* the fields AnalysisState(...) of analyze sets
InputFields ==
    {"query", "data", "analysis", "recommendations", "charts",
     "needs_more_data", "data_requests", "iteration_count"}

\* graph.invoke(initial_state): the thread's saved values, each field the
\* input sets replaced by the input's
Resume(saved, input) ==
    [f \in DOMAIN saved |-> IF f \in InputFields THEN input[f] ELSE saved[f]]

\* the record of the last stage of a request: what the completion client
\* did and whether a query of the adapter raised
Event(stage, llm, raised) ==
    [stage |-> stage, ok |-> llm.ok, text |-> llm.text, raised |-> raised]

\* how an analyst ended: the completion failed, or the branch of line 235
Judgement(llm) ==
    IF ~llm.ok THEN "failed"
    ELSE IF Readings[llm.text].insufficient THEN "insufficient"
    ELSE "sufficient"

NoResult == [query |-> "", data |-> <<>>, analysis |-> "", recommendations |-> "", charts |-> <<>>]

Init ==
    /\ pc = [r \in Requests |-> "idle"]
    /\ state = [r \in Requests |-> DefaultState]
    /\ memory = [t \in Threads |-> Checkpoint(DefaultState, 0)]
    /\ result = [r \in Requests |-> NoResult]
    /\ last = [r \in Requests |-> Event("", Failure, FALSE)]
    /\ visits = [r \in Requests |-> 0]
    /\ judged = [r \in Requests |-> "none"]

\* lines 455-472: analyze up to the graph's entry point
analyze(r, query) ==
    /\ pc[r] \in {"idle", "Done", "Raised"}
    /\ LET initial_state == AnalysisState(query, <<>>, "", "", <<>>, FALSE, <<>>, 0)
           s == Resume(memory[ThreadId(r)].values, initial_state)
       IN /\ state' = [state EXCEPT ![r] = s]
          /\ memory' = Save(r, s)
          /\ last' = [last EXCEPT ![r] = Event("analyze", Failure, FALSE)]
    /\ pc' = [pc EXCEPT ![r] = "data_extractor"]
    /\ result' = [result EXCEPT ![r] = NoResult]
    /\ visits' = [visits EXCEPT ![r] = 0]
    /\ judged' = [judged EXCEPT ![r] = "none"]

\* the node data_extractor
data_extractor(r, llm, tools) ==
    /\ pc[r] = "data_extractor"
    /\ LET out == Extract(state[r], llm, tools)
           s == ExtractorUpdate(state[r], out.data)
           ev == Event("data_extractor", llm,
                       out.raised \/ (llm.ok /\ tools.tryFail # 0))
       IN IF out.raised
          THEN /\ pc' = [pc EXCEPT ![r] = "Raised"]
               /\ last' = [last EXCEPT ![r] = ev]
               /\ UNCHANGED <<state, memory>>
          ELSE /\ pc' = [pc EXCEPT ![r] = "analyst"]
               /\ state' = [state EXCEPT ![r] = s]
               /\ memory' = Save(r, s)
               /\ last' = [last EXCEPT ![r] = ev]
    /\ visits' = [visits EXCEPT ![r] = visits[r] + 1]
    /\ UNCHANGED <<result, judged>>

\* the node analyst
analyst(r, llm) ==
    /\ pc[r] = "analyst"
    /\ LET s == AnalystResult(state[r], llm)
       IN /\ state' = [state EXCEPT ![r] = s]
          /\ memory' = Save(r, s)
          /\ last' = [last EXCEPT ![r] = Event("analyst", llm, FALSE)]
    /\ pc' = [pc EXCEPT ![r] = "should_continue"]
    /\ judged' = [judged EXCEPT ![r] = Judgement(llm)]
    /\ UNCHANGED <<result, visits>>

\* a conditional edge whose "data_extractor" branch leads to analyst
route_unfetched(r) ==
    /\ pc[r] = "should_continue"
    /\ pc' = [pc EXCEPT ![r] = IF should_continue(state[r]) = "data_extractor"
                                THEN "analyst" ELSE should_continue(state[r])]
    /\ UNCHANGED <<state, memory, result, last, visits, judged>>

\* the conditional edge after analyst
route(r) ==
    /\ pc[r] = "should_continue"
    /\ pc' = [pc EXCEPT ![r] = should_continue(state[r])]
    /\ UNCHANGED <<state, memory, result, last, visits, judged>>

\* the node consultant, and the edge to END
consultant(r, llm) ==
    /\ pc[r] = "consultant"
    /\ LET s == ConsultantResult(state[r], llm)
       IN /\ state' = [state EXCEPT ![r] = s]
          /\ memory' = Save(r, s)
          /\ last' = [last EXCEPT ![r] = Event("consultant", llm, FALSE)]
    /\ pc' = [pc EXCEPT ![r] = "END"]
    /\ UNCHANGED <<result, visits, judged>>

\* lines 474-484: analyze returns the result
analyze_return(r) ==
    /\ pc[r] = "END"
    /\ result' = [result EXCEPT ![r] =
                    [query |-> state[r].query, data |-> state[r].data,
                     analysis |-> state[r].analysis,
                     recommendations |-> state[r].recommendations,
                     charts |-> state[r].charts]]
    /\ pc' = [pc EXCEPT ![r] = "Done"]
    /\ UNCHANGED <<state, memory, last, visits, judged>>

(***************************************************************************)
(* Spec: one request at a time, calling analyze again and again.           *)
(***************************************************************************)
Next ==
    \/ \E query \in Queries : analyze(1, query)
    \/ pc[1] = "data_extractor" /\ \E llm \in LoopDecisions :
            \E tools \in AdapterRuns(state[1], llm) : data_extractor(1, llm, tools)
    \/ \E llm \in AnalystResponses : analyst(1, llm)
    \/ route(1)
    \/ \E llm \in ConsultantResponses : consultant(1, llm)
    \/ analyze_return(1)

Spec == Init /\ [][Next]_vars

(***************************************************************************)
(* The claims that Spec decides.                                           *)
(***************************************************************************)
\* C1: when a run of analyze terminates (the graph reached END, analyze
\* returned), its iteration_count is at most 4, whatever the completion
\* client answered and wherever it failed.
C1_IterationCountAtMostFour ==
    pc[1] \in {"END", "Done"} => state[1].iteration_count <= 4

\* a run that returned with iteration_count 4
C1_Witness == pc[1] = "Done" /\ state[1].iteration_count = 4

\* C2 as stated: in a run data_extractor executes at most 3 times, a 4th
\* Fetch never happens.
C2_AtMostThreeFetches == visits[1] <= 3

\* C2 as the code has it: in a run data_extractor executes at most 4 times;
\* after the fourth Fetch/Analyze cycle the run goes to consultant even if
\* analyst still asks for data, so a 5th Fetch never happens.
C2_AtMostFourFetches ==
    /\ visits[1] <= 4
    /\ visits[1] = 4 => pc[1] \in {"analyst", "should_continue", "consultant", "END", "Done"}

\* the state the fourth Fetch of a run leaves
C2_Witness == visits[1] = 4 /\ last[1].stage = "data_extractor"

\* C6: a Fetch keeps every key that data had, with its payload: nothing is
\* removed, overwritten or fetched again, on the keyword path, the default
\* path and the failure path alike.
C6_DataOnlyGrows ==
    [][pc[1] = "data_extractor" /\ pc'[1] = "analyst" =>
         \A i \in DOMAIN state[1].data :
            /\ HasKey(state'[1].data, state[1].data[i].key)
            /\ Get(state'[1].data, state[1].data[i].key) = state[1].data[i].value]_vars

\* a later Fetch whose response asks for the sales of a week has left the
\* 30-day sales_metrics of the first Fetch in place
C6_Witness ==
    /\ last[1].stage = "data_extractor"
    /\ last[1].text = Join(<<w_sales, w_week>>, <<" ">>)
    /\ visits[1] >= 2
    /\ Get(state[1].data, "sales_metrics").arg = 30

\* C7: should_continue returns data_extractor exactly when iteration_count
\* <= 3, needs_more_data is true and data_requests is non-empty; in every
\* other state it returns consultant.
C7_ShouldContinueTable ==
    [][pc[1] = "should_continue" =>
         pc'[1] = IF /\ state[1].iteration_count <= 3
                     /\ state[1].needs_more_data
                     /\ state[1].data_requests # <<>>
                  THEN "data_extractor" ELSE "consultant"]_vars

\* the forced exit: consultant at iteration_count 4 although analyst asks
\* for data
C7_Witness ==
    /\ pc[1] = "consultant"
    /\ state[1].iteration_count = 4
    /\ state[1].needs_more_data
    /\ state[1].data_requests # <<>>

\* the responses of analyst that lack the marker
Unmarked == {content \in AnalystTexts : ~Contains(content, "SUFFICIENT: NO")}

\* C8: after an Analyze whose response does not contain "SUFFICIENT: NO",
\* needs_more_data is false and data_requests is empty.
C8_UnmarkedMeansEnough ==
    last[1].stage = "analyst" /\ last[1].ok /\ last[1].text \in Unmarked =>
        ~state[1].needs_more_data /\ state[1].data_requests = <<>>

\* an unmarked response read after a round in which analyst asked for data
C8_Witness ==
    /\ last[1].stage = "analyst" /\ last[1].ok /\ last[1].text \in Unmarked
    /\ pc[1] = "should_continue"
    /\ visits[1] >= 2

\* C9: when the completion client fails in a Fetch entered with empty data,
\* data holds exactly the keys sales_metrics and sales_trend after the
\* Fetch; when it fails in a Fetch entered with data, data is unchanged.
C9_FetchCompletionFailure ==
    [][pc[1] = "data_extractor" /\ pc'[1] = "analyst" /\ ~last'[1].ok =>
         IF state[1].data = <<>>
         THEN /\ Keys(state'[1].data) = {"sales_metrics", "sales_trend"}
              /\ Len(state'[1].data) = 2
         ELSE state'[1].data = state[1].data]_vars

\* a first Fetch in which the completion client failed
C9_Witness ==
    /\ last[1].stage = "data_extractor" /\ ~last[1].ok
    /\ pc[1] = "analyst"
    /\ visits[1] = 1

(***************************************************************************)
(* SpecAnswering: the runs in which every query of the adapter answers.    *)
(* A stage that has begun runs to its end: the thread of a request is not  *)
(* stopped, and a completion returns or raises.                            *)
(***************************************************************************)
AnsweringFetch(r) ==
    pc[r] = "data_extractor" /\ \E llm \in LoopDecisions :
            \E tools \in AnsweringRuns(state[r], llm) : data_extractor(r, llm, tools)

AfterFetch(r) ==
    \/ \E llm \in AnalystResponses : analyst(r, llm)
    \/ route(r)
    \/ \E llm \in ConsultantResponses : consultant(r, llm)
    \/ analyze_return(r)

NextAnswering ==
    \/ \E query \in Queries : analyze(1, query)
    \/ AnsweringFetch(1)
    \/ AfterFetch(1)

SpecAnswering ==
    Init /\ [][NextAnswering]_vars /\ WF_vars(AnsweringFetch(1) \/ AfterFetch(1))

\* C3: while the adapter answers, every run of analyze reaches Done and
\* returns a result, whatever the completion client returns and wherever it
\* fails: no failure reaches the caller, and the result carries the data,
\* an analysis and the recommendations (the fallback values where the
\* client failed).
C3_CompletionFailuresAbsorbed ==
    /\ [](pc[1] # "Raised")
    /\ pc[1] = "data_extractor" ~> pc[1] = "Done"
    /\ [](pc[1] = "Done" =>
            /\ result[1].query = state[1].query
            /\ result[1].data # <<>>
            /\ result[1].analysis # ""
            /\ result[1].recommendations # "")

\* a run that returned although the client failed in all three stages: the
\* fallback pair, the fallback analysis and the fallback recommendations
C3_Witness ==
    /\ pc[1] = "Done"
    /\ visits[1] = 1
    /\ Keys(result[1].data) = {"sales_metrics", "sales_trend"}
    /\ result[1].analysis = "Analysis based on available data: ['sales_metrics', 'sales_trend']"
    /\ result[1].recommendations = NoRecommendations

\* C4 as stated: a failure of an adapter query in Fetch never leaves the
\* stage: the run goes on to analyst and no exception reaches the caller.
C4_AdapterFailuresAbsorbed == last[1].raised => pc[1] # "Raised"

(***************************************************************************)
(* SpecConc: two requests on the worker pool, their stages interleaved.    *)
(* Both call analyze on the one agents object of main.py.                  *)
(***************************************************************************)
ConcDecisions == {Response(w_top)}

ConcAnalystResponses == {Response(Lines(<<l_yes, l_analysis>>))}

ConcConsultantResponses == {Response(t_recommend)}

NextConc ==
    \E r \in Requests :
        \/ \E query \in Queries : analyze(r, query)
        \/ pc[r] = "data_extractor" /\ \E llm \in ConcDecisions :
                \E tools \in AnsweringRuns(state[r], llm) : data_extractor(r, llm, tools)
        \/ \E llm \in ConcAnalystResponses : analyst(r, llm)
        \/ route(r)
        \/ \E llm \in ConcConsultantResponses : consultant(r, llm)
        \/ analyze_return(r)

SpecConc == Init /\ [][NextConc]_vars

\* C5 as stated: concurrent requests share no state: the checkpoint under
\* the session key of a request in the graph is the state that request
\* wrote, never one the other request wrote over it.
C5_OwnCheckpoint ==
    \A r \in Requests :
        pc[r] \in {"data_extractor", "analyst", "should_continue", "consultant", "END"} =>
            /\ memory[ThreadId(r)].writer = r
            /\ memory[ThreadId(r)].values = state[r]

(***************************************************************************)
(* SpecFirst: runs whose first Fetch reads a decision made of the words of *)
(* Vocabulary, and whose analyst is content with the data.  The warehouse  *)
(* has a row for every query; any query may raise.                         *)
(***************************************************************************)
FirstAnalystResponses == {Response(Lines(<<l_yes, l_analysis>>))}

NextFirst ==
    \/ \E query \in Queries : analyze(1, query)
    \/ pc[1] = "data_extractor" /\ \E llm \in FirstDecisions :
            \E tools \in OneRowRuns(state[1], llm) : data_extractor(1, llm, tools)
    \/ \E llm \in FirstAnalystResponses : analyst(1, llm)
    \/ route(1)
    \/ \E llm \in ConsultantResponses : consultant(1, llm)
    \/ analyze_return(1)

SpecFirst == Init /\ [][NextFirst]_vars

\* the queries whose results data holds, in order
Fetched(data) ==
    [i \in DOMAIN data |->
        [key |-> data[i].key, op |-> data[i].value.op, arg |-> data[i].value.arg]]

C11_ChartsOnlyWhenSufficient ==
    state[1].charts # <<>> => judged[1] = "sufficient"

\* C11 as the code has it: charts is non-empty only if the most recent
\* analyst judged the data sufficient or its completion failed (the except
\* branch draws the default charts); before the first analyst of a run and
\* after an analyst that judged the data insufficient, charts is empty.
C11_ChartsOnlyWhenSufficientOrFailed ==
    /\ state[1].charts # <<>> => judged[1] \in {"sufficient", "failed"}
    /\ judged[1] \in {"none", "insufficient"} => state[1].charts = <<>>

\* charts drawn by the except branch of analyst
C11_Witness == judged[1] = "failed" /\ state[1].charts # <<>>

\* C12 as stated: after every analyst, and in the result analyze returns,
\* every chart descriptor has a data_key that is a top-level key of data.
C12_ChartKeysInData ==
    /\ pc[1] \in {"should_continue", "consultant", "END", "Done"} =>
          \A i \in DOMAIN state[1].charts :
              Field(state[1].charts[i], "data_key") \in Keys(state[1].data)
    /\ pc[1] = "Done" =>
          \A i \in DOMAIN result[1].charts :
              Field(result[1].charts[i], "data_key") \in Keys(result[1].data)

(***************************************************************************)
(* SpecCharts: runs whose Fetch returns sales_metrics and any of the five  *)
(* charted datasets, with or without rows, and whose analyst judges the    *)
(* data sufficient with a CHARTS: section of any shape, or fails.          *)
(***************************************************************************)
NextCharts ==
    \/ \E query \in Queries : analyze(1, query)
    \/ pc[1] = "data_extractor" /\ \E llm \in ChartDecisions :
            \E tools \in AnsweringRuns(state[1], llm) : data_extractor(1, llm, tools)
    \/ \E llm \in ChartResponses : analyst(1, llm)
    \/ route(1)
    \/ \E llm \in ConsultantResponses : consultant(1, llm)
    \/ analyze_return(1)

SpecCharts == Init /\ [][NextCharts]_vars

\* the five charted keys with their kinds, in the order of the claim
ChartKinds ==
    <<<<"sales_trend", "line">>, <<"top_products", "horizontal_bar">>,
      <<"revenue_by_category", "pie">>, <<"monthly_comparison", "bar">>,
      <<"customer_segments", "horizontal_bar">>>>

\* C13: the default charts are a function of data: one descriptor for each
\* of the five keys that data holds with a non-empty inner list, in the
\* fixed order, of kinds line, horizontal_bar, pie, bar, horizontal_bar, and
\* none for an absent key or an empty list.  (The except branch of analyst
\* stores the generator's output.)
C13_DefaultChartsOfData ==
    judged[1] = "failed" =>
        LET expected == SelectSeq(ChartKinds, LAMBDA k :
                            /\ k[1] \in Keys(state[1].data)
                            /\ Get(state[1].data, k[1]).rows > 0)
        IN /\ Len(state[1].charts) = Len(expected)
           /\ \A i \in DOMAIN expected :
                 /\ Field(state[1].charts[i], "data_key") = expected[i][1]
                 /\ Field(state[1].charts[i], "type") = expected[i][2]

\* data holds rows for the first three keys only, revenue_by_category
\* among them, and an empty monthly_comparison: line, horizontal_bar, pie
C13_Witness ==
    /\ judged[1] = "failed"
    /\ Keys(state[1].data) =
          {"sales_metrics", "sales_trend", "top_products", "revenue_by_category",
           "monthly_comparison"}
    /\ Get(state[1].data, "monthly_comparison").rows = 0
    /\ Len(state[1].charts) = 3
    /\ Field(state[1].charts[3], "type") = "pie"

\* the text that follows the marker in a response that holds "CHARTS:"
ChartsSection(content) == Strip(SplitSecond(content, "CHARTS:"))

\* the responses whose CHARTS: section is one JSON array and nothing else
ArrayTexts ==
    {content \in ChartTexts :
        /\ Contains(content, "CHARTS:")
        /\ json_loads(ChartsSection(content)).ok
        /\ json_loads(ChartsSection(content)).v.t = "arr"}

\* C14 as stated: for a CHARTS: section that holds a JSON array with nested
\* objects and arrays, the bracket scan stops at the true end of the array:
\* the extracted text is the array text, and charts is its parse.
C14_ScanEndsAtArrayEnd ==
    last[1].stage = "analyst" /\ last[1].ok /\ last[1].text \in ArrayTexts =>
        /\ ChartsJson(last[1].text) = ChartsSection(last[1].text)
        /\ state[1].charts = json_loads(ChartsSection(last[1].text)).v.items

\* the responses in which the marker is absent, no "[" follows it, the
\* brackets never balance, or the extracted text is not JSON
Unparsable ==
    {content \in ChartTexts :
        \/ ~Contains(content, "CHARTS:")
        \/ ~Contains(ChartsSection(content), "[")
        \/ BracketEnd(ChartsSection(content), Find(ChartsSection(content), "["), 0) = 0
        \/ ~json_loads(ChartsJson(content)).ok}

\* C15: chart extraction never raises: for such a response analyst keeps
\* the branch of a sufficient response (its analysis, not the fallback of
\* the except branch) and charts is exactly the default charts of data.
C15_UnparsableGivesDefaults ==
    last[1].stage = "analyst" /\ last[1].ok /\ last[1].text \in Unparsable =>
        /\ state[1].analysis = Readings[last[1].text].analysis
        /\ state[1].analysis = "Sales grew."
        /\ ~state[1].needs_more_data
        /\ state[1].charts = _generate_default_charts(state[1].data)

\* an array that is never closed, and the default charts drawn instead
C15_Witness ==
    /\ last[1].stage = "analyst"
    /\ last[1].text = Lines(<<l_yes, l_analysis, l_charts_open>>)
    /\ Len(state[1].charts) = 2

(***************************************************************************)
(* The claims about the order of the stages, decided by Spec.              *)
(***************************************************************************)
\* C16: when the completion call fails in analyst, the stage that follows
\* is consultant, never data_extractor, whatever iteration_count,
\* needs_more_data and data_requests were when analyst began.
C16_FailedAnalystGoesToConsultant ==
    /\ [][pc[1] = "analyst" /\ ~last'[1].ok =>
            pc'[1] = "should_continue" /\ ~state'[1].needs_more_data]_vars
    /\ [][pc[1] = "should_continue" /\ judged[1] = "failed" =>
            pc'[1] = "consultant"]_vars

\* consultant entered after a failed analyst of a later round, short of the
\* cap: the round before had asked for data
C16_Witness ==
    /\ pc[1] = "consultant"
    /\ judged[1] = "failed"
    /\ state[1].iteration_count = 2

\* the program counters of a request whose run is not under way
Outside == {"idle", "Done", "Raised"}

\* C17: the stages of a run occur one at a time, in the order
\* (data_extractor, analyst) one or more times, then consultant, then Done:
\* the first stage is data_extractor, the stage after data_extractor is
\* analyst, analyst is entered from data_extractor only, consultant from
\* the conditional edge only, and after consultant the run only returns.
\* (A data_extractor that an adapter failure leaves as an exception ends
\* the run: no stage follows it.)
C17_StageOrder ==
    [][/\ pc[1] \in Outside => pc'[1] = "data_extractor" /\ visits'[1] = 0
       /\ pc[1] = "data_extractor" => pc'[1] = "analyst" \/ (pc'[1] = "Raised" /\ last'[1].raised)
       /\ pc'[1] = "analyst" => pc[1] = "data_extractor"
       /\ pc[1] = "analyst" => pc'[1] = "should_continue"
       /\ pc[1] = "should_continue" => pc'[1] \in {"data_extractor", "consultant"}
       /\ pc'[1] = "data_extractor" => pc[1] \in Outside \cup {"should_continue"}
       /\ pc'[1] = "consultant" => pc[1] = "should_continue"
       /\ pc[1] = "consultant" => pc'[1] = "END"
       /\ pc[1] = "END" => pc'[1] = "Done"
       /\ pc'[1] = "Done" => pc[1] = "END"]_vars

\* a run of two rounds that has returned
C17_Witness ==
    /\ pc[1] = "Done"
    /\ visits[1] = 2
    /\ state[1].iteration_count = 2
    /\ last[1].stage = "consultant"

\* C18: analyze returns a result only after consultant has run, consultant
\* runs once in a run, also when the cap forces the exit; recommendations
\* is empty in every state of the run before consultant and is written by
\* the step of consultant only, and the result carries what it wrote.
C18_RecommendOnceBeforeResult ==
    /\ [](pc[1] \in {"data_extractor", "analyst", "should_continue", "consultant"} =>
            state[1].recommendations = "")
    /\ [](pc[1] \in {"END", "Done"} =>
            last[1].stage = "consultant")
    /\ [](pc[1] = "Done" => result[1].recommendations = state[1].recommendations)
    /\ [][state'[1].recommendations # state[1].recommendations =>
            \/ pc[1] = "consultant" /\ pc'[1] = "END"
            \/ pc[1] \in Outside /\ state'[1].recommendations = ""]_vars
    /\ [][/\ pc'[1] = "END" => pc[1] = "consultant"
          /\ pc[1] = "END" => pc'[1] = "Done"
          /\ pc'[1] = "Done" => pc[1] = "END"
          /\ pc'[1] = "consultant" => pc[1] = "should_continue"]_vars

\* a run the cap ended, returned with its recommendations
C18_Witness ==
    /\ pc[1] = "Done"
    /\ state[1].iteration_count = 4
    /\ state[1].needs_more_data
    /\ state[1].data_requests # <<>>
    /\ result[1].recommendations # ""

\* C19 as stated: the analysis a run returns is never the placeholder of
\* an insufficient analyst: it is the narrative of a sufficient response
\* or the fallback that lists the keys of data.
C19_NeverPlaceholder ==
    pc[1] = "Done" => result[1].analysis # Placeholder

(***************************************************************************)
(* C20, decided by SpecConc, whose requests share the thread "default".    *)
(***************************************************************************)
\* C20: every call of analyze starts from a fresh AnalysisState, whatever
\* the checkpoint of the thread holds from earlier calls: after the step of
\* analyze every field but query has its default, data changes in the
\* call's own data_extractor only, and the result carries that data.
C20_FreshStatePerCall ==
    /\ [][\A r \in Requests :
            /\ pc[r] \in Outside /\ pc'[r] = "data_extractor" =>
                  /\ state'[r] = [DefaultState EXCEPT !.query = state'[r].query]
                  /\ state'[r].query \in Queries
            /\ state'[r].data # state[r].data =>
                  \/ pc[r] = "data_extractor"
                  \/ pc[r] \in Outside /\ state'[r].data = <<>>]_vars
    /\ [](\A r \in Requests :
            /\ visits[r] = 0 => state[r].data = <<>>
            /\ pc[r] = "Done" => result[r].data = state[r].data)

\* request 2 has called analyze on the thread whose checkpoint held the
\* data of request 1's finished run
C20_Witness ==
    /\ pc[1] = "Done"
    /\ result[1].data # <<>>
    /\ pc[2] = "data_extractor"
    /\ visits[2] = 0
    /\ memory["default"].writer = 2
    /\ state[2].data = <<>>

(***************************************************************************)
(* The effects of the stages on the fields, decided by Spec.               *)
(***************************************************************************)
\* C21: every data_extractor that completes increases iteration_count by
\* exactly 1 and leaves data_requests empty, on the keyword path, the
\* default path and the failure path alike; no other stage changes
\* iteration_count (the call of analyze sets it to 0).
C21_FetchCountsAndClears ==
    [][/\ pc[1] = "data_extractor" /\ pc'[1] = "analyst" =>
            /\ state'[1].iteration_count = state[1].iteration_count + 1
            /\ state'[1].data_requests = <<>>
       /\ state'[1].iteration_count # state[1].iteration_count =>
            \/ pc[1] = "data_extractor" /\ pc'[1] = "analyst"
            \/ pc[1] \in Outside /\ state'[1].iteration_count = 0]_vars

\* the third Fetch of a run, in which the completion failed
C21_Witness ==
    /\ last[1].stage = "data_extractor" /\ ~last[1].ok
    /\ pc[1] = "analyst"
    /\ visits[1] = 3
    /\ state[1].iteration_count = 3
    /\ state[1].data_requests = <<>>

\* the fields of AnalysisState
Fields == DOMAIN DefaultState

\* a step leaves every field but those of changed as it was
Frame(changed) == \A f \in Fields \ changed : state'[1][f] = state[1][f]

\* C22: no stage modifies query: data_extractor changes only data,
\* data_requests and iteration_count, analyst only needs_more_data,
\* data_requests, analysis and charts, consultant only recommendations;
\* the result has exactly the fields query, data, analysis,
\* recommendations, charts, each as the final state has it, and its query
\* is the query analyze was called with.
C22_StagesKeepTheirFields ==
    /\ [][/\ pc[1] = "data_extractor" => Frame({"data", "data_requests", "iteration_count"})
          /\ pc[1] = "analyst" =>
                Frame({"needs_more_data", "data_requests", "analysis", "charts"})
          /\ pc[1] = "consultant" => Frame({"recommendations"})
          /\ pc[1] \in {"should_continue", "END"} => Frame({})
          /\ pc[1] \in Outside =>
                \E query \in Queries : analyze(1, query) /\ state'[1].query = query]_vars
    /\ [](pc[1] = "Done" =>
            /\ DOMAIN result[1] = {"query", "data", "analysis", "recommendations", "charts"}
            /\ \A f \in DOMAIN result[1] : result[1][f] = state[1][f]
            /\ result[1].query \in Queries)

\* a run of three rounds, its completion failing in the last analyst, that
\* returned the query it was called with
C22_Witness ==
    /\ pc[1] = "Done"
    /\ visits[1] = 3
    /\ judged[1] = "failed"
    /\ result[1].query = "Top products?"
    /\ state[1].query = "Top products?"

(***************************************************************************)
(* SpecParams: the runs whose decisions name capabilities together with    *)
(* numbers and periods, every query answering with one row.                *)
(***************************************************************************)
ParamRuns == {Adapter([op \in Operations |-> 1], 0, 0)}

ParamAnalystResponses ==
    {Response(Lines(<<l_yes, l_analysis>>)),
     Response(Lines(<<l_no, l_needed, l_request1, l_request2>>))}

NextParams ==
    \/ \E query \in Queries : analyze(1, query)
    \/ pc[1] = "data_extractor" /\ \E llm \in ParamDecisions :
            \E tools \in ParamRuns : data_extractor(1, llm, tools)
    \/ \E llm \in ParamAnalystResponses : analyst(1, llm)
    \/ route(1)
    \/ \E llm \in ConsultantResponses : consultant(1, llm)
    \/ analyze_return(1)

SpecParams == Init /\ [][NextParams]_vars

\* the state the first Fetch of a run leaves
AfterFirstFetch ==
    last[1].stage = "data_extractor" /\ last[1].ok /\ visits[1] = 1 /\ pc[1] = "analyst"

\* the day count as the claim chooses it
ClaimedDays(decision) ==
    IF "90" \in decision \/ "ninety" \in decision THEN 90
    ELSE IF "7" \in decision \/ "seven" \in decision \/ "week" \in decision THEN 7
    ELSE 30

ClaimedDaysOf == [text \in ParamTexts |-> ClaimedDays(Decision(text))]

\* C23 as stated: sales_metrics and sales_trend are fetched with the day
\* count chosen the same way (90 for "90"/"ninety", else 7 for
\* "7"/"seven"/"week", else 30), so a Fetch that retrieves both from one
\* response retrieves both with the same day count.
C23_SameDayCount ==
    AfterFirstFetch =>
        /\ \A key \in {"sales_metrics", "sales_trend"} :
              HasKey(state[1].data, key) =>
                  Get(state[1].data, key).arg = ClaimedDaysOf[last[1].text]
        /\ HasKey(state[1].data, "sales_metrics") /\ HasKey(state[1].data, "sales_trend") =>
              Get(state[1].data, "sales_metrics").arg = Get(state[1].data, "sales_trend").arg

\* the words that give a month count, and those that give a limit
MonthCues == {<<"1", "2">>, <<"3">>}
LimitCues == {<<"2", "0">>, <<"t", "w", "e", "n", "t", "y">>, <<"5">>, <<"f", "i", "v", "e">>}

Cued(ws, cues) == \E i \in DOMAIN ws : Lower(ws[i]) \in cues

\* C24 as stated: a parameter defaults whenever the response gives no cue
\* for it: monthly comparison named without a month count is fetched with
\* 6 months and top products named without a limit with limit 10, whatever
\* other number the response gives for another capability.
C24_ParameterDefaults ==
    AfterFirstFetch =>
        \A ws \in ParamWordings : last[1].text = Join(ws, <<" ">>) =>
            /\ HasKey(state[1].data, "monthly_comparison") /\ ~Cued(ws, MonthCues) =>
                  Get(state[1].data, "monthly_comparison").arg = 6
            /\ HasKey(state[1].data, "top_products") /\ ~Cued(ws, LimitCues) =>
                  Get(state[1].data, "top_products").arg = 10

\* the output keys of the seven operations of the adapter, as the claim
\* lists them
AdapterKeys ==
    {"sales_metrics", "top_products", "customer_segments", "sales_trend",
     "revenue_by_category", "monthly_comparison", "top_customers"}

\* C25 as stated: the keys of data are among the seven output keys of the
\* adapter's operations, and the key data_extractor tests to skip a
\* capability is the key under which it stores the capability's result.
C25_KeysAreOutputKeys ==
    /\ Keys(state[1].data) \subseteq AdapterKeys
    /\ \A op \in Operations : SkipKey(op) = StoreKey(op)

\* the keys under which data_extractor stores results
FetchKeys ==
    {"sales_metrics", "top_products", "customer_segments", "sales_trend",
     "revenue_by_category", "monthly_comparison", "customer_lifetime_value"}

\* C25 as the code has it: the keys of data are among the seven keys under
\* which data_extractor stores results; the lifetime-value result, whose
\* output key is top_customers, is stored under customer_lifetime_value.
\* Each key holds the result of its own capability, once, and the key
\* tested to skip a capability is the key its result is stored under: a
\* Fetch that names a capability whose key data holds leaves its entry.
C25_KeysAreFetchKeys ==
    /\ [](/\ Keys(state[1].data) \subseteq FetchKeys
          /\ Cardinality(Keys(state[1].data)) = Len(state[1].data)
          /\ \A i \in DOMAIN state[1].data :
                state[1].data[i].key = StoreKey(state[1].data[i].value.op)
          /\ \A op \in Operations : SkipKey(op) = StoreKey(op))
    /\ [][pc[1] = "data_extractor" /\ pc'[1] = "analyst" /\ last'[1].ok =>
            \A i \in DOMAIN Selections[last'[1].text] :
                LET c == Selections[last'[1].text][i]
                IN /\ HasKey(state'[1].data, c.key)
                   /\ Get(state'[1].data, c.key).op = c.op
                   /\ HasKey(state[1].data, c.key) =>
                        Get(state'[1].data, c.key) = Get(state[1].data, c.key)]_vars

\* a later Fetch read "LTV 20": the lifetime values fetched earlier with
\* limit 10 are still under customer_lifetime_value
C25_Witness ==
    /\ last[1].stage = "data_extractor"
    /\ last[1].text = Join(<<w_ltv, w_twenty>>, <<" ">>)
    /\ visits[1] >= 2
    /\ HasKey(state[1].data, "customer_lifetime_value")
    /\ Get(state[1].data, "customer_lifetime_value").op = "get_customer_lifetime_value"
    /\ Get(state[1].data, "customer_lifetime_value").arg = 10
    /\ OutputKey("get_customer_lifetime_value") = "top_customers"

(***************************************************************************)
(* The states in which the stages are entered, decided by Spec.            *)
(***************************************************************************)
\* C26: whenever analyst runs, data is non-empty: a data_extractor that
\* completes on empty data has added a matched capability, the default
\* triple or the pair of the failure path.
C26_AnalystHasData ==
    /\ pc[1] = "analyst" => state[1].data # <<>>
    /\ last[1].stage = "analyst" => state[1].data # <<>>

\* analyst entered after a first Fetch whose response named no capability
C26_Witness ==
    /\ pc[1] = "analyst"
    /\ last[1].ok /\ last[1].text = <<>>
    /\ visits[1] = 1
    /\ Keys(state[1].data) = {"sales_metrics", "top_products", "sales_trend"}

\* C27: every data_extractor after the first of a run is entered with
\* needs_more_data true, data_requests non-empty, charts empty and
\* iteration_count between 1 and 3, so its context is "Additional data
\* requested"; the first is entered with data_requests empty and
\* iteration_count 0, and it alone has the context "Initial query".
C27_LaterFetchesAreRequested ==
    pc[1] = "data_extractor" =>
        IF visits[1] = 0
        THEN /\ state[1].data_requests = <<>>
             /\ state[1].iteration_count = 0
             /\ Context(state[1]) = "Initial query"
        ELSE /\ state[1].needs_more_data
             /\ state[1].data_requests # <<>>
             /\ state[1].charts = <<>>
             /\ state[1].iteration_count \in 1..3
             /\ state[1].iteration_count = visits[1]
             /\ Context(state[1]) = "Additional data requested"

\* the fourth Fetch of a run about to begin, with the two requests of the
\* third analyst
C27_Witness ==
    /\ pc[1] = "data_extractor"
    /\ visits[1] = 3
    /\ state[1].iteration_count = 3
    /\ Len(state[1].data_requests) = 2

====
